---- MODULE Spec2Model ----
(***************************************************************************)
(* A model of script.js: the PerformanceDashboard object (metric state,    *)
(* refresh tick, projection onto the DOM, page navigation) and the host    *)
(* bridge (outbound action messages, inbound update entry points).         *)
(*                                                                         *)
(* Numbers.  JavaScript numbers that the program stores or shows are kept  *)
(* in TENTHS: 78 is 780, 10.7 is 107, 55.5 is 555.  A usage is a whole     *)
(* percentage exactly when its value here is a multiple of 10.  Heap and   *)
(* storage sizes read from the browser are kept in HUNDREDTHS of a GiB.    *)
(* IEEE Infinity (a division by zero) is the value Infinity below, larger  *)
(* than every finite value the model computes.  Arithmetic is exact; the   *)
(* binary rounding error of 0.7 * x + 0.3 * y is not modelled.             *)
(*                                                                         *)
(* The page markup is not part of script.js.  The model assumes the        *)
(* elements named by the DOM contract exist (every getElementById of the   *)
(* projection finds its element), so every guarded write happens.          *)
(***************************************************************************)
EXTENDS Integers, Sequences, FiniteSets, TLC

VARIABLES
    phase,          \* "loaded": script evaluated, DOMContentLoaded not yet fired;
                    \* "running": window.dashboard exists
    hasMemory,      \* "memory" in performance
    hasStorage,     \* navigator.storage.estimate exists
    perf,           \* this.performanceData: metric -> (field -> value)
    dom,            \* what the projection wrote: metric -> (element key -> value)
    detectPending,  \* detectSystemInfo is suspended at its await
    timerActive,    \* the setInterval of startRealTimeUpdates is installed
    firstRender,    \* "none" | "baseline" | "nobaseline": was initializeSimulatedData
                    \* applied when updateUI ran for the first time
    activeButtons,  \* nav buttons carrying class "active"
    activePages,    \* pages carrying class "active"
    outbox,         \* strings handed to window.chrome.webview.postMessage, in order
    console,        \* strings handed to console.log, in order
    steps,          \* refresh ticks of the timer and inbound host calls taken so far
    clicks,         \* action-control clicks taken
    last            \* the operation that produced this state, with its arguments

vars == <<phase, hasMemory, hasStorage, perf, dom, detectPending,
          timerActive, firstRender, activeButtons, activePages, outbox, console,
          steps, clicks, last>>

metricVars == <<perf, dom, detectPending, timerActive, firstRender, steps>>
uiVars == <<activeButtons, activePages, outbox, clicks>>
envVars == <<hasMemory, hasStorage>>

----------------------------------------------------------------------------
(* Bounds of the model *)

MaxSteps == 1
MaxClicks == 1

----------------------------------------------------------------------------
(* Numbers *)

Infinity == 100000000

Max(a, b) == IF a >= b THEN a ELSE b
Min(a, b) == IF a <= b THEN a ELSE b

\* Math.round on a value in tenths: floor(x + 0.5); Infinity stays Infinity
MathRound(t) == IF t >= Infinity THEN Infinity ELSE ((t + 5) \div 10) * 10

\* Math.round of n/d for exact integers n, d (d # 0), result in tenths
RoundRatio(n, d) ==
    IF d > 0 THEN ((2 * n + d) \div (2 * d)) * 10
             ELSE ((2 * (0 - n) + (0 - d)) \div (2 * (0 - d))) * 10

\* Number.prototype.toFixed(1) of n/d (d > 0): the nearest tenth, ties upward
ToFixed1(n, d) == (20 * n + d) \div (2 * d)

\* Math.round of a size in hundredths of a GiB to whole GiB, result in tenths
RoundGiB(h) == ((h + 50) \div 100) * 10

Clamp(lo, hi, x) == Max(lo, Min(hi, x))

----------------------------------------------------------------------------
(* The MetricSet *)

Metrics == {"disk", "gpu", "proc", "ram", "cpu"}
NonDisk == Metrics \ {"disk"}

\* initializePerformanceMonitoring: the object literal
InitialData ==
    [disk |-> [usage |-> 0, used |-> 0, free |-> 0, total |-> 1000],
     gpu  |-> [usage |-> 0, temp |-> 0, memory |-> 0],
     proc |-> [usage |-> 0, cores |-> 0, threads |-> 0],
     ram  |-> [usage |-> 0, used |-> 0, total |-> 160],
     cpu  |-> [usage |-> 0, freq |-> 0, temp |-> 0]]

\* initializeSimulatedData: the fallback baseline
SimulatedData ==
    [disk |-> [usage |-> 780, used |-> 2340, free |-> 660, total |-> 3000],
     gpu  |-> [usage |-> 450, temp |-> 670, memory |-> 62],
     proc |-> [usage |-> 320, cores |-> 80, threads |-> 160],
     ram  |-> [usage |-> 670, used |-> 107, total |-> 160],
     cpu  |-> [usage |-> 280, freq |-> 32, temp |-> 520]]

----------------------------------------------------------------------------
(* The projection onto the DOM *)

\* text of an element the script has not written yet
Markup == 0 - 1

\* the detail elements updateMetricDetails writes for a metric
DetailKeys(m) ==
    CASE m = "disk" -> {"used", "free"}
      [] m = "gpu"  -> {"temp", "memory"}
      [] m = "ram"  -> {"used"}
      [] m = "cpu"  -> {"freq", "temp"}
      [] OTHER      -> {}

\* the elements updateStaticInfo writes for a metric
StaticKeys(m) ==
    CASE m = "proc" -> {"cores", "threads"}
      [] m = "ram"  -> {"total"}
      [] OTHER      -> {}

DomKeys(m) == {"value", "fill", "status"} \cup DetailKeys(m) \cup StaticKeys(m)

InitialDom ==
    [m \in Metrics |->
        [k \in DomKeys(m) |-> IF k = "status" THEN "markup" ELSE Markup]]

\* updateStatusIndicator with inclusive thresholds
StatusColorInclusive(usage) ==
    IF usage >= 800 THEN "#ff4444"
    ELSE IF usage >= 600 THEN "#ffaa00"
    ELSE "var(--primary-red)"

\* updateStatusIndicator: the colour chosen for a usage
StatusColor(usage) ==
    IF usage > 800 THEN "#ff4444"
    ELSE IF usage > 600 THEN "#ffaa00"
    ELSE "var(--primary-red)"

\* updateUI with updateMetricDetails and updateStatusIndicator
updateUI(p, d) ==
    [m \in Metrics |->
        [k \in DomKeys(m) |->
            IF k \in {"value", "fill"} THEN p[m]["usage"]
            ELSE IF k = "status" THEN StatusColor(p[m]["usage"])
            ELSE IF k \in DetailKeys(m) THEN p[m][k]
            ELSE d[m][k]]]

\* updateStaticInfo
updateStaticInfo(p, d) ==
    [d EXCEPT !["proc"]["cores"] = p["proc"]["cores"],
              !["proc"]["threads"] = p["proc"]["threads"],
              !["ram"]["total"] = p["ram"]["total"]]

----------------------------------------------------------------------------
(* One refresh tick *)

\* measureCPUUsage; est is estimatedUsage, in [0, 100)
measureCPUUsage(p, est) ==
    LET u == ((7 * p["cpu"]["usage"] + 3 * est + 50) \div 100) * 10
    IN  [p EXCEPT !["cpu"]["usage"] = u,
                  !["cpu"]["temp"] = ((3500 + 4 * u + 50) \div 100) * 10,
                  !["cpu"]["freq"] = (2800 + u + 50) \div 100]

\* measureMemoryUsage; heap.used is usedJSHeapSize
measureMemoryUsage(p, mem, heap) ==
    IF mem
    THEN [p EXCEPT !["ram"]["used"] = ToFixed1(heap.used, 100),
                   !["ram"]["usage"] =
                        IF p["ram"]["total"] = 0 THEN Infinity
                        ELSE RoundRatio(10 * heap.used, p["ram"]["total"])]
    ELSE p

\* simulateOtherMetrics; s holds the values Math.random() gave
simulateOtherMetrics(p, s) ==
    LET g  == MathRound(Clamp(200, 900, p["gpu"]["usage"] + s.gd))
        pr == MathRound(Clamp(150, 850, p["proc"]["usage"] + s.pd))
        du == MathRound(Clamp(600, 950, p["disk"]["usage"] + s.dd))
        dused == ((du * p["disk"]["total"] + 5000) \div 10000) * 10
        q  == [p EXCEPT !["gpu"]["usage"] = g,
                        !["gpu"]["temp"] = ((4500 + 5 * g + 50) \div 100) * 10,
                        !["gpu"]["memory"] = (4000 + 5 * g + 50) \div 100,
                        !["proc"]["usage"] = pr]
    IN  IF s.hit
        THEN [q EXCEPT !["disk"]["usage"] = du,
                       !["disk"]["used"] = dused,
                       !["disk"]["free"] = p["disk"]["total"] - dused]
        ELSE q

\* simulateAllMetrics without its test for "disk"
simulateAllMetricsWithDisk(p, nd) ==
    [m \in Metrics |->
        [p[m] EXCEPT !["usage"] =
            MathRound(Clamp(100, 900, p[m]["usage"] + (IF m = "disk" THEN 49 ELSE nd[m])))]]

\* simulateAllMetrics; nd holds the nudge drawn for each key
simulateAllMetrics(p, nd) ==
    [m \in Metrics |->
        IF m # "disk"
        THEN [p[m] EXCEPT !["usage"] = MathRound(Clamp(100, 900, p[m]["usage"] + nd[m]))]
        ELSE p[m]]

\* the step of the try block that throws in a tick ("renderTwice": updateUI throws
\* in the try block and again in the catch block)
Faults == {"none", "cpu", "mem", "sim", "render", "renderTwice"}

\* updatePerformanceMetrics: the MetricSet and the DOM after the tick
updatePerformanceMetrics(p, d, mem, fault, heap, s) ==
    LET p1 == measureCPUUsage(p, s.est)
        p2 == measureMemoryUsage(p1, mem, heap)
        p3 == simulateOtherMetrics(p2, s)
        caught == CASE fault = "cpu" -> p
                    [] fault = "mem" -> p1
                    [] fault = "sim" -> p2
                    [] OTHER -> p3
        q == simulateAllMetrics(caught, s.nd)
    IN  IF fault = "none"
        THEN [perf |-> p3, dom |-> updateUI(p3, d), rendered |-> TRUE]
        ELSE IF fault = "renderTwice"
        THEN [perf |-> q, dom |-> d, rendered |-> FALSE]
        ELSE [perf |-> q, dom |-> updateUI(q, d), rendered |-> TRUE]

----------------------------------------------------------------------------
(* What the environment supplies *)

\* navigator.hardwareConcurrency (0: undefined)
HardwareConcurrency == {0, 40}

\* performance.memory readings, in hundredths of a GiB
Heaps == {[used |-> 4, total |-> 6], [used |-> 125, total |-> 180]}
NoHeap == [used |-> 0, total |-> 0]
HeapReadings(mem) == IF mem THEN Heaps ELSE {NoHeap}

\* what one tick draws: est is the CPU estimate of measureCPUUsage, gd, pd and dd the
\* values of (Math.random() - 0.5) * 10, * 8 and * 2, hit is Math.random() < 0.1,
\* nd the values of (Math.random() - 0.5) * 10 of simulateAllMetrics
Samples ==
    {[est |-> 0, gd |-> 0 - 50, pd |-> 0 - 40, hit |-> FALSE, dd |-> 0,
      nd |-> [m \in NonDisk |-> 0 - 50]],
     [est |-> 999, gd |-> 49, pd |-> 39, hit |-> TRUE, dd |-> 9,
      nd |-> [m \in NonDisk |-> IF m \in {"gpu", "ram"} THEN 49 ELSE 0 - 18]]}

\* what navigator.storage.estimate() settles with, sizes in hundredths of a GiB
StorageEstimates ==
    {[ok |-> FALSE, quota |-> 0, usage |-> 0],
     [ok |-> TRUE, quota |-> 29000, usage |-> 0],
     [ok |-> TRUE, quota |-> 29000, usage |-> 1240]}

\* arguments the host passes to updatePerformanceMetric
MetricNames == Metrics \cup {"bogus", "constructor"}
PushedValues == {0 - 300, 600, 605, 805, 1500}

\* names every object inherits from Object.prototype: performanceData[name] is truthy
InheritedNames == {"constructor"}

\* arguments the host passes to updateDashboard
Pushes ==
    [ramUsed  |-> [ram |-> [used |-> 50]],
     cpuOver  |-> [cpu |-> [usage |-> 1500]],
     procInfo |-> [proc |-> [cores |-> 40, threads |-> 80]],
     totals   |-> [disk |-> [total |-> 5000], ram |-> [total |-> 320]],
     gpuFan   |-> [gpu |-> [usage |-> 800, fan |-> 12]],
     unknown  |-> [bogus |-> [usage |-> 10], ram |-> [usage |-> 400]]]

----------------------------------------------------------------------------
(* Navigation *)

\* the data-page values of the .nav-btn elements and the ids of the .page elements;
\* "about" is a button whose page is missing, "hidden" a page without a button
NavButtons == {"dashboard", "optimizer", "mods", "about"}
Pages == {"dashboard", "optimizer", "mods", "hidden"}
PageNames == NavButtons \cup Pages \cup {"nosuch"}

\* switchPage that adds the marks without first removing the old ones
switchPageKeepingMarks(targetPage) ==
    IF targetPage \in NavButtons /\ targetPage \in Pages
    THEN [buttons |-> activeButtons \cup {targetPage},
          pages |-> activePages \cup {targetPage}]
    ELSE [buttons |-> activeButtons, pages |-> activePages]

\* switchPage: the active marks after the call
switchPage(targetPage) ==
    LET clearedButtons == activeButtons \ NavButtons
        clearedPages == activePages \ Pages
        activeButton == targetPage \in NavButtons   \* querySelector found it
        activePage == targetPage \in Pages          \* getElementById found it
    IN  IF activeButton /\ activePage
        THEN [buttons |-> clearedButtons \cup {targetPage},
              pages |-> clearedPages \cup {targetPage}]
        ELSE [buttons |-> clearedButtons, pages |-> clearedPages]

----------------------------------------------------------------------------
(* The outbound action controls: every addEventListener("click") of the script
   after the class, in registration order *)

Listeners ==
    <<
       [attr |-> "data-action", id |-> "full-clean", msg |-> "full-clean", logs |-> TRUE],
       [attr |-> "data-action", id |-> "clean-ram", msg |-> "clean-ram", logs |-> TRUE],
       [attr |-> "data-action", id |-> "full-clean", msg |-> "full-clean", logs |-> FALSE],
       [attr |-> "data-action", id |-> "clean-ram", msg |-> "clean-ram", logs |-> FALSE],
       [attr |-> "data-action", id |-> "ip-flush", msg |-> "ip-flush", logs |-> FALSE],
       [attr |-> "data-action", id |-> "reset-firewall", msg |-> "reset-firewall", logs |-> FALSE],
       [attr |-> "data-action", id |-> "clear-temp", msg |-> "clear-temp", logs |-> FALSE],
       [attr |-> "data-action", id |-> "kill-emulator", msg |-> "kill-emulator", logs |-> FALSE],
       [attr |-> "data-action", id |-> "fix-98", msg |-> "fix-98", logs |-> FALSE],
       [attr |-> "data-action", id |-> "environment-fix", msg |-> "environment-fix", logs |-> FALSE],
       [attr |-> "data-mod", id |-> "super-smooth", msg |-> "super-smooth", logs |-> FALSE],
       [attr |-> "data-mod", id |-> "ultra-hd", msg |-> "ultra-hd", logs |-> FALSE],
       [attr |-> "data-mod", id |-> "hdr", msg |-> "hdr", logs |-> FALSE],
       [attr |-> "data-mod", id |-> "smooth", msg |-> "smooth", logs |-> FALSE],
       [attr |-> "data-mod", id |-> "t-box-speed", msg |-> "t-box-speed", logs |-> FALSE],
       [attr |-> "data-action", id |-> "park-control", msg |-> "park-control", logs |-> FALSE],
       [attr |-> "data-action", id |-> "timer-resolution", msg |-> "timer-resolution", logs |-> FALSE],
       [attr |-> "data-action", id |-> "cru", msg |-> "cru", logs |-> FALSE],
       [attr |-> "data-action", id |-> "filterkeys", msg |-> "filterkeys", logs |-> FALSE],
       [attr |-> "data-action", id |-> "optimized-tweak", msg |-> "optimized-tweak", logs |-> FALSE],
       [attr |-> "data-action", id |-> "debloat", msg |-> "debloat", logs |-> FALSE],
       [attr |-> "data-action", id |-> "control-panel", msg |-> "control-panel", logs |-> FALSE],
       [attr |-> "data-action", id |-> "visual-effects", msg |-> "visual-effects", logs |-> FALSE],
       [attr |-> "data-action", id |-> "msconfig", msg |-> "msconfig", logs |-> FALSE],
       [attr |-> "data-action", id |-> "windows-update-blocker", msg |-> "windows-update-blocker", logs |-> FALSE],
       [attr |-> "data-action", id |-> "defender-control", msg |-> "defender-control", logs |-> FALSE],
       [attr |-> "data-action", id |-> "nx-script", msg |-> "nx-script", logs |-> FALSE],
       [attr |-> "data-action", id |-> "basic", msg |-> "basic", logs |-> FALSE],
       [attr |-> "data-action", id |-> "advanced", msg |-> "advanced", logs |-> FALSE],
       [attr |-> "data-action", id |-> "ultimate", msg |-> "ultimate", logs |-> FALSE],
       [attr |-> "data-action", id |-> "windows-10-activation", msg |-> "windows-10-activation", logs |-> FALSE],
       [attr |-> "data-action", id |-> "basicF", msg |-> "basicF", logs |-> FALSE],
       [attr |-> "data-action", id |-> "advancedF", msg |-> "advancedF", logs |-> FALSE],
       [attr |-> "data-action", id |-> "ultimateF", msg |-> "ultimateF", logs |-> FALSE],
       [attr |-> "data-action", id |-> "commend", msg |-> "commend", logs |-> FALSE],
       [attr |-> "data-action", id |-> "cleanF", msg |-> "cleanF", logs |-> FALSE]
    >>

Controls == {Listeners[i].id : i \in 1..Len(Listeners)}

\* the listeners of one control, in the order they run
ListenersOf(c) == SelectSeq(Listeners, LAMBDA l : l.id = c)

\* what the listeners of control c post when the host channel exists
Posted(c) == [i \in 1..Len(ListenersOf(c)) |-> ListenersOf(c)[i].msg]

\* what the listeners of control c log when the host channel is absent
Logged(c) ==
    [i \in 1..Len(SelectSeq(ListenersOf(c), LAMBDA l : l.logs)) |->
        "WebView host not available"]

----------------------------------------------------------------------------
(* State *)

Op(o, a, v) == [op |-> o, arg |-> a, val |-> v]

Init ==
    /\ phase = "loaded"
    /\ hasMemory \in BOOLEAN
    /\ hasStorage \in BOOLEAN
    /\ perf = InitialData
    /\ dom = InitialDom
    /\ detectPending = FALSE
    /\ timerActive = FALSE
    /\ firstRender = "none"
    /\ activeButtons = {"dashboard"}
    /\ activePages = {"dashboard"}
    /\ outbox = << >>
    /\ console = << >>
    /\ steps = 0
    /\ clicks = 0
    /\ last = Op("load", "", 0)

\* the first updateUI that completes records whether the baseline was in place
NoteRender(rendered, baseline) ==
    IF firstRender = "none" /\ rendered
    THEN (IF baseline THEN "baseline" ELSE "nobaseline")
    ELSE firstRender

\* detectSystemInfo up to its await (or to its end when it does not await)
\* hc: navigator.hardwareConcurrency; throws: reading performance.memory throws
detectSystemInfo(hc, throws, heap) ==
    LET c  == IF hc = 0 THEN 80 ELSE hc
        p1 == [InitialData EXCEPT !["proc"]["cores"] = c,
                                  !["proc"]["threads"] = c * 2]
        p2 == IF hasMemory /\ ~throws
              THEN [p1 EXCEPT !["ram"]["total"] = RoundGiB(heap.total),
                              !["ram"]["used"] = RoundGiB(heap.used)]
              ELSE p1
        awaits == hasStorage /\ ~throws
    IN  IF awaits
        THEN [perf |-> p2, dom |-> InitialDom, awaits |-> TRUE]
        ELSE [perf |-> SimulatedData, dom |-> updateStaticInfo(p2, InitialDom),
              awaits |-> FALSE]

\* the DOMContentLoaded handler: new PerformanceDashboard(), that is
\* initializeNavigation, initializePerformanceMonitoring (with detectSystemInfo up
\* to its await), startRealTimeUpdates (setInterval, then the initial refresh);
\* then window.dashboard is assigned, unless the initial refresh threw
DOMContentLoaded(hc, throws, heap, fault, s) ==
    /\ phase = "loaded"
    /\ LET det == detectSystemInfo(hc, throws, heap)
           r   == updatePerformanceMetrics(det.perf, det.dom, hasMemory, fault, heap, s)
       IN  /\ perf' = r.perf
           /\ dom' = r.dom
           /\ detectPending' = det.awaits
           /\ firstRender' = NoteRender(r.rendered, ~det.awaits)
           /\ phase' = IF fault = "renderTwice" THEN "detached" ELSE "running"
           /\ console' = console
                \o (IF throws THEN <<"[v0] Could not access system APIs, using simulated data">>
                    ELSE << >>)
                \o (IF fault # "none" THEN <<"[v0] Error updating metrics, using simulated data">>
                    ELSE << >>)
                \o (IF fault # "renderTwice"
                    THEN <<"[v0] Performance Dashboard initialized with real-time monitoring">>
                    ELSE << >>)
    /\ timerActive' = TRUE
    /\ last' = Op("DOMContentLoaded", fault, 0)
    /\ UNCHANGED <<envVars, uiVars, steps>>

\* the rest of detectSystemInfo, run when navigator.storage.estimate() settles
DetectResume(e) ==
    /\ detectPending
    /\ LET total == RoundGiB(e.quota)
           used  == RoundGiB(e.usage)
           p1 == IF e.ok /\ e.quota # 0 /\ e.usage # 0
                 THEN [perf EXCEPT !["disk"]["total"] = total,
                                   !["disk"]["used"] = used,
                                   !["disk"]["free"] = total - used,
                                   !["disk"]["usage"] =
                                        IF total = 0 THEN Infinity
                                        ELSE RoundRatio(used * 100, total)]
                 ELSE perf
       IN  /\ dom' = updateStaticInfo(p1, dom)
           /\ perf' = SimulatedData
    /\ detectPending' = FALSE
    /\ console' = IF e.ok THEN console
                  ELSE Append(console, "[v0] Could not access system APIs, using simulated data")
    /\ last' = Op("detectResume", IF e.ok THEN "resolved" ELSE "rejected", 0)
    /\ UNCHANGED <<phase, envVars, timerActive, firstRender, uiVars, steps>>

\* one firing of the setInterval callback
Tick(fault, heap, s) ==
    /\ timerActive
    /\ steps < MaxSteps
    /\ LET r == updatePerformanceMetrics(perf, dom, hasMemory, fault, heap, s)
       IN  /\ perf' = r.perf
           /\ dom' = r.dom
           /\ firstRender' = NoteRender(r.rendered, ~detectPending)
    /\ console' = IF fault # "none"
                  THEN Append(console, "[v0] Error updating metrics, using simulated data")
                  ELSE console
    /\ steps' = steps + 1
    /\ last' = Op("tick", fault, 0)
    /\ UNCHANGED <<phase, envVars, detectPending, timerActive, uiVars>>

\* updateMetric without the clamp
updateMetricUnclamped(p, metric, value) ==
    IF metric \in DOMAIN p
    THEN [p EXCEPT ![metric]["usage"] = value]
    ELSE p

\* updateMetric: the MetricSet after the call
updateMetric(p, metric, value) ==
    IF metric \in DOMAIN p
    THEN [p EXCEPT ![metric]["usage"] = Max(0, Min(1000, value))]
    ELSE p

\* window.updatePerformanceMetric(metric, value)
UpdatePerformanceMetric(metric, value) ==
    /\ steps < MaxSteps
    /\ steps' = steps + 1
    /\ last' = Op("updatePerformanceMetric", metric, value)
    /\ IF phase = "running"
       THEN /\ perf' = updateMetric(perf, metric, value)
            /\ IF metric \in DOMAIN perf \/ metric \in InheritedNames
               THEN /\ dom' = updateUI(perf', dom)
                    /\ firstRender' = NoteRender(TRUE, ~detectPending)
               ELSE UNCHANGED <<dom, firstRender>>
       ELSE UNCHANGED <<perf, dom, firstRender>>
    /\ UNCHANGED <<phase, envVars, detectPending, timerActive, uiVars, console>>

\* Object.assign with its arguments exchanged: fields the target has keep their value
ObjectAssignSwapped(target, source) ==
    [f \in DOMAIN target \cup DOMAIN source |->
        IF f \in DOMAIN target THEN target[f] ELSE source[f]]

\* Object.assign(target, source)
ObjectAssign(target, source) ==
    [f \in DOMAIN target \cup DOMAIN source |->
        IF f \in DOMAIN source THEN source[f] ELSE target[f]]

\* the forEach of window.updateDashboard: the MetricSet after the merge
mergeDashboard(p, data) ==
    [m \in DOMAIN p |->
        IF m \in DOMAIN data THEN ObjectAssign(p[m], data[m]) ELSE p[m]]

\* window.updateDashboard(data)
UpdateDashboard(name) ==
    /\ steps < MaxSteps
    /\ steps' = steps + 1
    /\ last' = Op("updateDashboard", name, 0)
    /\ IF phase = "running"
       THEN /\ perf' = mergeDashboard(perf, Pushes[name])
            /\ dom' = updateUI(perf', dom)
            /\ firstRender' = NoteRender(TRUE, ~detectPending)
       ELSE UNCHANGED <<perf, dom, firstRender>>
    /\ UNCHANGED <<phase, envVars, detectPending, timerActive, uiVars, console>>

\* a click on a .nav-btn (the listener exists once initializeNavigation ran)
NavClick(b) ==
    /\ phase # "loaded"
    /\ activeButtons' = switchPage(b).buttons
    /\ activePages' = switchPage(b).pages
    /\ last' = Op("navClick", b, 0)
    /\ UNCHANGED <<phase, envVars, metricVars, outbox, clicks, console>>

\* window.switchToPage(pageName)
SwitchToPage(pageName) ==
    /\ last' = Op("switchToPage", pageName, 0)
    /\ IF phase = "running" /\ pageName \in NavButtons
       THEN /\ activeButtons' = switchPage(pageName).buttons
            /\ activePages' = switchPage(pageName).pages
       ELSE UNCHANGED <<activeButtons, activePages>>
    /\ UNCHANGED <<phase, envVars, metricVars, outbox, clicks, console>>

\* a click on an action control: its listeners run in registration order;
\* channel: window.chrome && window.chrome.webview, as each listener reads it
ActionClick(c, channel) ==
    /\ clicks < MaxClicks
    /\ clicks' = clicks + 1
    /\ IF channel
       THEN /\ outbox' = outbox \o Posted(c)
            /\ UNCHANGED console
       ELSE /\ console' = console \o Logged(c)
            /\ UNCHANGED outbox
    /\ last' = Op("actionClick", c, IF channel THEN 1 ELSE 0)
    /\ UNCHANGED <<phase, envVars, metricVars, activeButtons, activePages>>

----------------------------------------------------------------------------
(* Specifications.  The metric side (startup, ticks, inbound updates) and the
   click side (navigation, action controls) share no state but phase, so each is
   explored under its own specification. *)

Startup ==
    \E hc \in HardwareConcurrency, throws \in BOOLEAN, heap \in HeapReadings(hasMemory),
       fault \in Faults, s \in Samples :
        /\ throws => hasMemory
        /\ DOMContentLoaded(hc, throws, heap, fault, s)

Resume == \E e \in StorageEstimates : DetectResume(e)

Refresh ==
    \E fault \in Faults, heap \in HeapReadings(hasMemory), s \in Samples :
        Tick(fault, heap, s)

HostMetric == \E m \in MetricNames, v \in PushedValues : UpdatePerformanceMetric(m, v)

HostDashboard == \E name \in DOMAIN Pushes : UpdateDashboard(name)

Next == Startup \/ Resume \/ Refresh \/ HostMetric \/ HostDashboard

Spec == Init /\ [][Next]_vars

\* the click side: startup without optional browser APIs
StartupUI ==
    \E fault \in {"none", "renderTwice"}, s \in Samples :
        DOMContentLoaded(0, FALSE, NoHeap, fault, s)

Navigate == \E b \in NavButtons : NavClick(b)

HostNavigate == \E name \in PageNames : SwitchToPage(name)

Action == \E c \in Controls, channel \in BOOLEAN : ActionClick(c, channel)

InitUI == Init /\ ~hasMemory /\ ~hasStorage

NextUI == StartupUI \/ Navigate \/ HostNavigate \/ Action

SpecUI == InitUI /\ [][NextUI]_vars

----------------------------------------------------------------------------
(* Claims *)

ErrorLog == "[v0] Error updating metrics, using simulated data"

\* a whole percentage in [0, 100]
IsPercent(u) == u \in 0..1000 /\ u % 10 = 0

\* updateUI has written the elements of every metric from the MetricSet
Rendered(p, d) ==
    \A m \in Metrics :
        /\ d[m]["value"] = p[m]["usage"]
        /\ d[m]["fill"] = p[m]["usage"]

\* C1: in every reachable state the usage of each of the five metrics, as stored in
\* the MetricSet and as written into {metric}-value and {metric}-fill, is a whole
\* number in [0, 100].
C1_UsageIsPercent ==
    \A m \in Metrics :
        /\ IsPercent(perf[m]["usage"])
        /\ dom[m]["value"] # Markup => IsPercent(dom[m]["value"])
        /\ dom[m]["fill"] # Markup => IsPercent(dom[m]["fill"])

\* C2: for every detection outcome the fallback baseline has been applied to the
\* MetricSet when the first render of the initial refresh happens (stated for a
\* startup whose initial refresh raises nothing).
C2_BaselineBeforeFirstRender ==
    (last.op = "DOMContentLoaded" /\ last.arg = "none") => firstRender = "baseline"

\* C3: after a click on a navigation button whose identifier names an existing page
\* (also one delivered through switchToPage) exactly one page and exactly one
\* button are active, and they are those of the clicked identifier.
C3_NavigationExclusive ==
    (\/ last.op = "navClick" /\ last.arg \in NavButtons \cap Pages
     \/ last.op = "switchToPage" /\ last.arg \in NavButtons \cap Pages
            /\ phase = "running")
    => /\ activeButtons = {last.arg}
       /\ activePages = {last.arg}
       /\ Cardinality(activeButtons) = 1
       /\ Cardinality(activePages) = 1

C3_Witness ==
    /\ last.op = "switchToPage"
    /\ last.arg = "mods"
    /\ phase = "running"
    /\ activeButtons = {"mods"}
    /\ activePages = {"mods"}

\* C4: a navigation switch to an identifier whose button or page is not found is a
\* no-op: the active pages and the active buttons after it are those before it.
C4_UnknownIsNoOp ==
    [][(last'.op \in {"navClick", "switchToPage"}
            /\ last'.arg \notin NavButtons \cap Pages)
        => (activeButtons' = activeButtons /\ activePages' = activePages)]_vars

\* C5: once the dashboard exists, updatePerformanceMetric(m, v) for a known metric m
\* stores min(100, max(0, v)) as m's usage, leaves every other metric and every
\* other field of m unchanged and renders; for an unknown name, or before the
\* dashboard exists, the MetricSet is unchanged.
C5_UpdateMetricClamps ==
    [][last'.op = "updatePerformanceMetric" =>
        IF phase = "running" /\ last'.arg \in Metrics
        THEN /\ perf'[last'.arg]["usage"] = Min(1000, Max(0, last'.val))
             /\ DOMAIN perf'[last'.arg] = DOMAIN perf[last'.arg]
             /\ \A f \in DOMAIN perf[last'.arg] \ {"usage"} :
                    perf'[last'.arg][f] = perf[last'.arg][f]
             /\ \A k \in Metrics \ {last'.arg} : perf'[k] = perf[k]
             /\ Rendered(perf', dom')
        ELSE perf' = perf]_vars

C5_Witness ==
    /\ last = Op("updatePerformanceMetric", "cpu", 1500)
    /\ phase = "running"
    /\ perf["cpu"]["usage"] = 1000
    /\ dom["cpu"]["value"] = 1000

\* C6: updateDashboard(partial) merges field by field: of each metric named in the
\* partial set exactly the fields present take the pushed values, every other field
\* and every metric not named keeps its value, names that are no metric are
\* ignored, and a render follows.
C6_DashboardMerge ==
    [][(last'.op = "updateDashboard" /\ phase = "running") =>
        LET data == Pushes[last'.arg]
        IN  /\ DOMAIN perf' = Metrics
            /\ \A m \in Metrics :
                 /\ DOMAIN perf'[m] = DOMAIN perf[m] \cup
                        (IF m \in DOMAIN data THEN DOMAIN data[m] ELSE {})
                 /\ \A f \in DOMAIN perf'[m] :
                        perf'[m][f] = IF m \in DOMAIN data /\ f \in DOMAIN data[m]
                                      THEN data[m][f]
                                      ELSE perf[m][f]
            /\ Rendered(perf', dom')]_vars

C6_Witness ==
    /\ last = Op("updateDashboard", "ramUsed", 0)
    /\ phase = "running"
    /\ perf["ram"]["used"] = 50
    /\ perf["ram"]["usage"] = 670
    /\ perf["ram"]["total"] = 160

\* C7: with the host channel absent, a click on any action control is logged, sends
\* no message and changes nothing else.
C7_AbsentChannelLogged ==
    [][(last'.op = "actionClick" /\ last'.val = 0) =>
        (Len(console') > Len(console) /\ outbox' = outbox)]_vars

C9_StatusBands ==
    \A m \in Metrics :
        LET u == dom[m]["value"]
            c == dom[m]["status"]
        IN  u # Markup =>
                /\ (u > 800 /\ u <= 1000) => c = "#ff4444"
                /\ (u > 600 /\ u <= 800) => c = "#ffaa00"
                /\ (u >= 0 /\ u <= 600) => c = "var(--primary-red)"

C9_Witness ==
    /\ dom["gpu"]["value"] = 800
    /\ dom["gpu"]["status"] = "#ffaa00"
    /\ \E m \in Metrics : dom[m]["value"] \in 601..799
    /\ \E m \in Metrics : dom[m]["value"] \in 0..599

\* C10: with the host channel available each click on an action control sends
\* exactly one message, the control's identifier.
C10_OneMessagePerClick ==
    [][(last'.op = "actionClick" /\ last'.val = 1) =>
        outbox' = Append(outbox, last'.arg)]_vars

\* the fields of a metric that no refresh tick writes
TickStableFields(m) ==
    CASE m = "proc" -> {"cores", "threads"}
      [] m = "ram"  -> {"total"}
      [] m = "disk" -> {"total"}
      [] OTHER      -> {}

\* C11: a field that updateDashboard merged into the MetricSet and that no refresh
\* tick writes (proc.cores, proc.threads, ram.total, disk.total) keeps the pushed
\* value in the next state when that state is produced by a refresh tick or by the
\* pending continuation of detectSystemInfo, that is by anything but a host call.
C11_PushedFieldsKept ==
    [][(/\ last.op = "updateDashboard"
        /\ phase = "running"
        /\ last'.op \in {"tick", "detectResume"}) =>
        \A m \in DOMAIN Pushes[last.arg] \cap Metrics :
            \A f \in DOMAIN Pushes[last.arg][m] \cap TickStableFields(m) :
                perf'[m][f] = Pushes[last.arg][m][f]]_vars

====
